---------------------------- MODULE Spec2Model ----------------------------
(***************************************************************************)
(* The EV / probability engine of the PrizePicks parlay recommender:       *)
(*   ev_calculator.py        calculate_ev, calculate_parlay_probability    *)
(*   correlation_analyzer.py get_team_from_player,                         *)
(*                           calculate_correlation_matrix,                 *)
(*                           calculate_correlation_penalty,                *)
(*                           get_correlation_warning                       *)
(*                                                                         *)
(* Numbers.  Probabilities and edges are decimals; they are held here as   *)
(* integers in units of 1/ProbScale (0.5004 is 5004).  Correlation         *)
(* coefficients are held in hundredths (-0.25 is -25), weights in tenths   *)
(* (0.3 is 3), and a penalty is an exact fraction <<num, den>>.            *)
(* Python's round() is round-half-to-even on the value it is given.        *)
(***************************************************************************)
EXTENDS Integers, Sequences, FiniteSets, TLC

VARIABLES
    prizepicks_df,  \* calculate_ev argument: rows [player, line, stat_type]
    market_df,      \* calculate_ev argument: rows [player, market_line, implied_prob]
    ev_data,        \* what calculate_ev returned
    picks_df,       \* the legs handed to the parlay functions
    weight,         \* calculate_correlation_penalty's weight argument, in tenths
    raw_prob,       \* what calculate_parlay_probability returned, in 1/ProbScale
    penalty,        \* what calculate_correlation_penalty returned, <<num, den>>
    warning,        \* what get_correlation_warning returned
    props,          \* calculate_arbitrage argument: quotes [player, stat_type, implied_prob]
    arb_opportunities, \* what calculate_arbitrage returned, or the exception it raised
    ev_columns,     \* the column names of the frame given to find_correlation_arb
    corr_arb,       \* what find_correlation_arb returned
    bankroll,       \* BankrollManager.bankroll, in cents
    odds,           \* decimal odds argument, in tenths
    edge,           \* edge argument, in thousandths
    full_kelly,     \* kelly_criterion's full_kelly argument, in hundredths
    kelly_pct,      \* what kelly_criterion returned, <<num, den>>
    stake_info,     \* what calculate_stake returned
    display_positive_ev, \* the candidate rows the parlay builder selects from
    num_legs,       \* the "Picks" slider
    adjusted_prob,  \* raw_prob * penalty, <<num, den>>
    settlements,    \* the update_bankroll calls made so far: <<stake, profit>>
    bet_limits,     \* what get_bet_limits returned
    pc              \* position of the caller

\* the state of the arbitrage scanner's caller
arbVars == <<props, arb_opportunities, ev_columns, corr_arb>>

\* the state of the bankroll manager and its caller
stakeVars == <<bankroll, odds, edge, full_kelly, kelly_pct, stake_info>>

\* the state of the parlay builder and of the settlement page
appVars == <<display_positive_ev, num_legs, adjusted_prob, settlements,
             bet_limits>>

vars == <<prizepicks_df, market_df, ev_data, picks_df, weight, raw_prob,
          penalty, warning, arbVars, stakeVars, appVars, pc>>

----------------------------------------------------------------------------
(* Units and bounds *)

\* one unit of probability is 1/ProbScale
ProbScale == 100 * 100

\* the fixed-line platform's assumed probability, 0.5 (pp_implied_prob)
PP_IMPLIED_PROB == ProbScale \div 2

\* rows in the fixed-line table
MaxProps == 2

\* rows in the market table
MaxQuotes == 2

\* Python None / an unset result
None == "None"

\* the scanner has been given nothing and has returned nothing
ArbUnused ==
    /\ props = <<>>
    /\ arb_opportunities = None
    /\ ev_columns = {}
    /\ corr_arb = None

\* the parlay builder has not run and no bet has been settled
AppUnused ==
    /\ display_positive_ev = <<>>
    /\ num_legs = None
    /\ adjusted_prob = None
    /\ settlements = <<>>
    /\ bet_limits = None

\* bankroll_mgr = BankrollManager(1000), in cents
INITIAL_BANKROLL == 1000 * 100

\* the bankroll manager is as constructed and has been asked nothing
StakeUnused ==
    /\ bankroll = INITIAL_BANKROLL
    /\ odds = None
    /\ edge = None
    /\ full_kelly = None
    /\ kelly_pct = None
    /\ stake_info = None

Min(a, b) == IF a < b THEN a ELSE b
Max(a, b) == IF a > b THEN a ELSE b
Abs(a) == IF a < 0 THEN -a ELSE a

\* all sequences over S of length 0..n
SeqsUpTo(S, n) == UNION {[1..k -> S] : k \in 0..n}

\* n / d rounded to the nearest integer, ties to the even one (Python round)
RoundHalfEven(n, d) ==
    LET q == n \div d
        r == n % d
    IN  IF 2 * r < d THEN q
        ELSE IF 2 * r > d THEN q + 1
        ELSE IF q % 2 = 0 THEN q ELSE q + 1

\* round(x, 3) of a value held in 1/ProbScale: the nearest multiple of 0.001
Round3(x) == (ProbScale \div 1000) * RoundHalfEven(x, ProbScale \div 1000)

----------------------------------------------------------------------------
(* ev_calculator.py: calculate_ev *)

\* mutant: a cross join, the player key ignored
MergeCross(left_df, right_df) ==
    LET pairs == {<<i, j>> \in (1..Len(left_df)) \X (1..Len(right_df)) : TRUE}
    IN  {[player |-> left_df[p[1]].player,
          line |-> left_df[p[1]].line,
          stat_type |-> left_df[p[1]].stat_type,
          market_line |-> right_df[p[2]].market_line,
          implied_prob |-> right_df[p[2]].implied_prob,
          left |-> p[1], right |-> p[2]] : p \in pairs}

\* the inner merge on 'player' (how='inner'): every left row paired with every
\* right row of the identical player string.  left / right are the positions
\* of the two source rows (pandas' join indexers), kept for reference.
Merge(left_df, right_df) ==
    LET pairs == {<<i, j>> \in (1..Len(left_df)) \X (1..Len(right_df)) :
                     left_df[i].player = right_df[j].player}
    IN  {[player |-> left_df[p[1]].player,
          line |-> left_df[p[1]].line,
          stat_type |-> left_df[p[1]].stat_type,
          market_line |-> right_df[p[2]].market_line,
          implied_prob |-> right_df[p[2]].implied_prob,
          left |-> p[1], right |-> p[2]] : p \in pairs}

\* the unrounded ev of a merged row (the local variable ev, lines 40-47)
PickEv(row) ==
    IF row.line < row.market_line
    THEN row.implied_prob - PP_IMPLIED_PROB
    ELSE (ProbScale - row.implied_prob) - PP_IMPLIED_PROB

\* mutant: OVER also on equal lines
PickDirectionLeq(row) == IF row.line <= row.market_line THEN "OVER" ELSE "UNDER"

PickDirection(row) == IF row.line < row.market_line THEN "OVER" ELSE "UNDER"

\* the row calculate_pick_ev returns, concatenated to the merged row
calculate_pick_ev(row) ==
    [player |-> row.player, line |-> row.line, stat_type |-> row.stat_type,
     market_line |-> row.market_line, implied_prob |-> row.implied_prob,
     left |-> row.left, right |-> row.right,
     ev |-> Round3(PickEv(row)),
     direction |-> PickDirection(row),
     is_positive |-> PickEv(row) > 0,
     edge_amount |-> Abs(row.line - row.market_line)]

\* mutant: the rows that go last in a descending sort
SortFirstAscending(rows) == {r \in rows : \A s \in rows : r.ev <= s.ev}

\* the rows that may come first when rows are sorted by 'ev' descending
SortFirst(rows) == {r \in rows : \A s \in rows : r.ev >= s.ev}

\* sort_values('ev', ascending=False).  The default sort kind is not stable,
\* so rows of equal ev may come out in any order: the set of possible results.
RECURSIVE sort_values(_)
sort_values(rows) ==
    IF rows = {} THEN {<<>>}
    ELSE UNION {{<<r>> \o rest : rest \in sort_values(rows \ {r})} :
                  r \in SortFirst(rows)}

\* the rows before sorting: merged with the per-row results
Applied(pp, market) == {calculate_pick_ev(row) : row \in Merge(pp, market)}

\* the possible return values of calculate_ev
calculate_ev(pp, market) ==
    IF pp = <<>> \/ market = <<>> THEN {<<>>}
    ELSE IF Merge(pp, market) = {} THEN {<<>>}
    ELSE sort_values(Applied(pp, market))

----------------------------------------------------------------------------
(* The tables calculate_ev is applied to *)

EvPlayers == {"LeBron James", "Stephen Curry"}
EvMarketPlayers == {"LeBron James", "lebron james"}
StatTypes == {"Points", "Rebounds"}
PropLines == {20}
\* market quotes (market_line, implied_prob) around the fixed line
Quotes == {<<24, 6000>>, <<22, 5000>>, <<22, 5004>>, <<20, 0>>, <<18, 10000>>}

PropRows == [player : EvPlayers, line : PropLines, stat_type : StatTypes]
QuoteRows == {[player |-> p, market_line |-> q[1], implied_prob |-> q[2]] :
                 p \in EvMarketPlayers, q \in Quotes}

\* fetch_market_odds: drop_duplicates(subset=['player', 'market_line'])
NoDuplicates(df) ==
    \A i, j \in 1..Len(df) :
        (df[i].player = df[j].player /\ df[i].market_line = df[j].market_line)
            => i = j

InitEv ==
    /\ prizepicks_df \in SeqsUpTo(PropRows, MaxProps)
    /\ market_df \in {df \in SeqsUpTo(QuoteRows, MaxQuotes) : NoDuplicates(df)}
    /\ ev_data = None
    /\ picks_df = <<>>
    /\ weight = 3
    /\ raw_prob = None
    /\ penalty = None
    /\ warning = None
    /\ ArbUnused
    /\ StakeUnused
    /\ AppUnused
    /\ pc = "start"

\* ev_data = calculate_ev(pp_data, market_data)
CalculateEv ==
    /\ pc = "start"
    /\ \E result \in calculate_ev(prizepicks_df, market_df) : ev_data' = result
    /\ pc' = "ev_done"
    /\ UNCHANGED <<prizepicks_df, market_df, picks_df, weight, raw_prob,
                   penalty, warning,
                   arbVars, stakeVars, appVars>>

Next == CalculateEv

Spec == InitEv /\ [][Next]_vars

\* the rows of a returned table, by position
Rows(df) == {df[k] : k \in 1..Len(df)}

\* the edge of the side chosen for fixed-line row pp and market row mk, unrounded
ExactEdge(pp, mk) ==
    IF pp.line < mk.market_line
    THEN mk.implied_prob - ProbScale \div 2
    ELSE (ProbScale - mk.implied_prob) - ProbScale \div 2

\* the players that occur in both tables
CommonPlayers ==
    {prizepicks_df[i].player : i \in 1..Len(prizepicks_df)}
        \cap {market_df[j].player : j \in 1..Len(market_df)}

C2_IsPositiveIffReportedEdge ==
    pc = "ev_done" =>
        \A r \in Rows(ev_data) : r.is_positive <=> r.ev > 0

\* C3 as stated: output players occur in both inputs, and no fixed-line prop
\* and no market prop contributes to more than one output row
C3_OneToOneJoin ==
    pc = "ev_done" =>
        /\ \A r \in Rows(ev_data) : r.player \in CommonPlayers
        /\ \A k, l \in 1..Len(ev_data) :
               k # l => /\ ev_data[k].left # ev_data[l].left
                        /\ ev_data[k].right # ev_data[l].right

\* C4: calculate_ev always returns, and returns an empty table when the
\* fixed-line table is empty, the market table is empty, or no player occurs
\* in both
C4_EmptyResult ==
    /\ pc = "start" => calculate_ev(prizepicks_df, market_df) # {}
    /\ pc = "ev_done" =>
           ((prizepicks_df = <<>> \/ market_df = <<>> \/ CommonPlayers = {})
                => ev_data = <<>>)

\* C4 witness: both tables have rows, no player is shared, the result is empty
C4_Witness ==
    /\ pc = "ev_done"
    /\ prizepicks_df # <<>>
    /\ market_df # <<>>
    /\ CommonPlayers = {}
    /\ ev_data = <<>>

\* C5: the output is ordered by edge descending and is a permutation of the
\* joined rows: every pair (fixed-line row, market row) of one player occurs in
\* it exactly once and nothing else does
C5_SortedPermutation ==
    pc = "ev_done" =>
        LET joined == {<<i, j>> \in (1..Len(prizepicks_df)) \X (1..Len(market_df)) :
                          prizepicks_df[i].player = market_df[j].player}
        IN  /\ \A k \in 1..(Len(ev_data) - 1) : ev_data[k].ev >= ev_data[k + 1].ev
            /\ {<<r.left, r.right>> : r \in Rows(ev_data)} = joined
            /\ Len(ev_data) = Cardinality(joined)

\* C5 witness: several rows came out, with equal and with different edges, and
\* the sort moved rows of a later market row ahead of rows of an earlier one
C5_Witness ==
    /\ pc = "ev_done"
    /\ Len(ev_data) >= 3
    /\ ev_data[1].ev = ev_data[2].ev
    /\ ev_data[1].ev > ev_data[Len(ev_data)].ev
    /\ ev_data[1].right > ev_data[Len(ev_data)].right

----------------------------------------------------------------------------
(* ev_calculator.py: calculate_parlay_probability *)

RECURSIVE GCD(_, _)
GCD(a, b) == IF b = 0 THEN a ELSE GCD(b, a % b)

\* a probability held in 1/ProbScale as a fraction in lowest terms
FracOf(p) == LET g == GCD(ProbScale, p) IN <<p \div g, ProbScale \div g>>

\* the product of two fractions in lowest terms, in lowest terms
FracMul(f, h) ==
    LET g1 == GCD(f[2], h[1])
        g2 == GCD(h[2], f[1])
    IN  IF f[1] = 0 \/ h[1] = 0 THEN <<0, 1>>
        ELSE <<(f[1] \div g2) * (h[1] \div g1), (f[2] \div g1) * (h[2] \div g2)>>

\* mutant: the probability of the other side
LegProbabilityFlipped(pick) ==
    IF pick.direction = "OVER" THEN ProbScale - pick.implied_prob
    ELSE pick.implied_prob

\* the value appended to probs for one pick (lines 81-84)
LegProbability(pick) ==
    IF pick.direction = "OVER" THEN pick.implied_prob
    ELSE ProbScale - pick.implied_prob

\* np.prod(probs), exact
RECURSIVE np_prod(_)
np_prod(probs) ==
    IF probs = <<>> THEN <<1, 1>>
    ELSE FracMul(FracOf(Head(probs)), np_prod(Tail(probs)))

\* one more decimal digit of r / den: <<quotient so far, remainder>>
DivStep(qr, den) == <<qr[1] * 10 + (qr[2] * 10) \div den, (qr[2] * 10) % den>>

\* round(f, 4) of a fraction f >= 0, in units of 0.0001
Round4(f) ==
    LET den == f[2]
        qr == DivStep(DivStep(DivStep(DivStep(
                  <<f[1] \div den, f[1] % den>>, den), den), den), den)
    IN  IF 2 * qr[2] < den THEN qr[1]
        ELSE IF 2 * qr[2] > den THEN qr[1] + 1
        ELSE IF qr[1] % 2 = 0 THEN qr[1] ELSE qr[1] + 1

calculate_parlay_probability(picks) ==
    IF picks = <<>> THEN 0
    ELSE Round4(np_prod([k \in 1..Len(picks) |-> LegProbability(picks[k])]))

----------------------------------------------------------------------------
(* correlation_analyzer.py *)

\* the player -> team dictionary, in insertion order
player_teams ==
    <<
       <<"LeBron James", "LAL">>,
       <<"Anthony Davis", "LAL">>,
       <<"Austin Reaves", "LAL">>,
       <<"D'Angelo Russell", "LAL">>,
       <<"Stephen Curry", "GSW">>,
       <<"Klay Thompson", "GSW">>,
       <<"Draymond Green", "GSW">>,
       <<"Andrew Wiggins", "GSW">>,
       <<"Giannis Antetokounmpo", "MIL">>,
       <<"Damian Lillard", "MIL">>,
       <<"Khris Middleton", "MIL">>,
       <<"Brook Lopez", "MIL">>,
       <<"Jayson Tatum", "BOS">>,
       <<"Jaylen Brown", "BOS">>,
       <<"Kristaps Porzingis", "BOS">>,
       <<"Jrue Holiday", "BOS">>,
       <<"Nikola Jokic", "DEN">>,
       <<"Jamal Murray", "DEN">>,
       <<"Michael Porter Jr.", "DEN">>,
       <<"Aaron Gordon", "DEN">>,
       <<"Joel Embiid", "PHI">>,
       <<"Tyrese Maxey", "PHI">>,
       <<"Tobias Harris", "PHI">>,
       <<"Luka Doncic", "DAL">>,
       <<"Kyrie Irving", "DAL">>,
       <<"Tim Hardaway Jr.", "DAL">>,
       <<"Shai Gilgeous-Alexander", "OKC">>,
       <<"Jalen Williams", "OKC">>,
       <<"Chet Holmgren", "OKC">>,
       <<"Trae Young", "ATL">>,
       <<"Dejounte Murray", "ATL">>,
       <<"Jalen Johnson", "ATL">>,
       <<"Kevin Durant", "PHX">>,
       <<"Devin Booker", "PHX">>,
       <<"Bradley Beal", "PHX">>,
       <<"Kawhi Leonard", "LAC">>,
       <<"Paul George", "LAC">>,
       <<"James Harden", "LAC">>,
       <<"Russell Westbrook", "LAC">>,
       <<"Anthony Edwards", "MIN">>,
       <<"Karl-Anthony Towns", "MIN">>,
       <<"Rudy Gobert", "MIN">>,
       <<"Jimmy Butler", "MIA">>,
       <<"Bam Adebayo", "MIA">>,
       <<"Tyler Herro", "MIA">>,
       <<"Jalen Brunson", "NYK">>,
       <<"Julius Randle", "NYK">>,
       <<"OG Anunoby", "NYK">>
    >>

\* the team of a player no entry matches
UnknownTeam == "OTHER"

\* Python's "a in b" on strings
IsSubstring(a, b) ==
    \E i \in 1..(Len(b) - Len(a) + 1) : SubSeq(b, i, i + Len(a) - 1) = a

\* the dictionary entries the partial match accepts for player_name
PartialMatches(player_name) ==
    {k \in 1..Len(player_teams) :
        \/ IsSubstring(player_teams[k][1], player_name)
        \/ IsSubstring(player_name, player_teams[k][1])}

\* mutant: a player that matches nothing is given the first team of the table
get_team_default_first(player_name) ==
    IF \E k \in 1..Len(player_teams) : player_teams[k][1] = player_name
    THEN player_teams[CHOOSE k \in 1..Len(player_teams) :
                          player_teams[k][1] = player_name][2]
    ELSE IF PartialMatches(player_name) # {}
    THEN player_teams[CHOOSE k \in PartialMatches(player_name) :
                          \A l \in PartialMatches(player_name) : k <= l][2]
    ELSE player_teams[1][2]

get_team_from_player(player_name) ==
    IF \E k \in 1..Len(player_teams) : player_teams[k][1] = player_name
    THEN player_teams[CHOOSE k \in 1..Len(player_teams) :
                          player_teams[k][1] = player_name][2]
    ELSE IF PartialMatches(player_name) # {}
    THEN player_teams[CHOOSE k \in PartialMatches(player_name) :
                          \A l \in PartialMatches(player_name) : k <= l][2]
    ELSE UnknownTeam

\* every player name the leg sets below use
LegNames == <<"LeBron James", "Stephen Curry", "Nikola Jokic", "Luka Doncic",
              "Joel Embiid", "Trae Young">>
\* three of one team, one of another, one in no entry, and two that are no
\* key but contain a key or are contained in one
CorrPlayers == {"LeBron James", "Anthony Davis", "Austin Reaves",
                "Stephen Curry", "Patrick Mahomes", "LeBron James Jr.", "Jalen"}

\* get_team_from_player, a pure function, tabulated once over those names
TeamOf == [p \in CorrPlayers \cup {LegNames[k] : k \in 1..Len(LegNames)} |->
              get_team_from_player(p)]

\* mutant: the second branch tests player1's team only
PairCorrOneSided(team1, team2) ==
    IF team1 = team2 /\ team1 # UnknownTeam THEN -25
    ELSE IF team1 # UnknownTeam THEN 10
    ELSE 0

\* the coefficient of one pair, in hundredths (lines 133-142)
PairCorr(team1, team2) ==
    IF team1 = team2 /\ team1 # UnknownTeam THEN -25
    ELSE IF team1 # UnknownTeam /\ team2 # UnknownTeam THEN 10
    ELSE 0

\* the matrix in hundredths: np.eye(n), then both sides of every i < j filled
calculate_correlation_matrix(players_list) ==
    LET n == Len(players_list)
        teams == [p \in {players_list[k] : k \in 1..n} |-> TeamOf[p]]
    IN  [c \in (1..n) \X (1..n) |->
            IF c[1] = c[2] THEN 100
            ELSE LET i == Min(c[1], c[2])
                     j == Max(c[1], c[2])
                 IN  PairCorr(teams[players_list[i]], teams[players_list[j]])]

\* the pairs (i, j), i < j <= n, in the order the two nested loops visit them
LoopPairs(n) ==
    LET S == {c \in (1..n) \X (1..n) : c[1] < c[2]}
        Before(a, b) == a[1] < b[1] \/ (a[1] = b[1] /\ a[2] < b[2])
    IN  [k \in 1..Cardinality(S) |->
            CHOOSE c \in S : Cardinality({d \in S : Before(d, c)}) = k - 1]

RECURSIVE SumSeq(_)
SumSeq(s) == IF s = <<>> THEN 0 ELSE Head(s) + SumSeq(Tail(s))

\* a fraction in lowest terms with a positive denominator
Reduce(num, den) ==
    LET g == GCD(Abs(num), den) IN <<num \div g, den \div g>>

\* mutant: the bounds are not applied
ClampNone(num, den) == Reduce(num, den)

\* max(0.7, min(1.3, penalty)) for penalty = num / den, den > 0
Clamp(num, den) ==
    LET upper == IF 10 * num < 13 * den THEN <<num, den>> ELSE <<13, 10>>
    IN  IF 10 * upper[1] > 7 * upper[2]
        THEN Reduce(upper[1], upper[2]) ELSE <<7, 10>>

\* the penalty as an exact fraction; w is the weight in tenths
calculate_correlation_penalty(picks, w) ==
    IF Len(picks) < 2 THEN <<1, 1>>
    ELSE LET players == [k \in 1..Len(picks) |-> picks[k].player]
             corr_matrix == calculate_correlation_matrix(players)
             pairs == LoopPairs(Len(players))
             correlations == [k \in 1..Len(pairs) |-> corr_matrix[pairs[k]]]
         IN  IF correlations = <<>> THEN <<1, 1>>
             \* avg_corr = sum / len, in hundredths; penalty = 1.0 + avg_corr * w/10
             ELSE Clamp(1000 * Len(correlations) + SumSeq(correlations) * w,
                        1000 * Len(correlations))

\* mutant: the last two pairs are named
NamedPairsLast(same_teams) ==
    SubSeq(same_teams, Max(1, Len(same_teams) - 1), Len(same_teams))

\* same_teams[:2]
NamedPairs(same_teams) == SubSeq(same_teams, 1, Min(2, Len(same_teams)))

\* None, or the (player1, player2, team) triples the message names; the rest
\* of the message is fixed text
get_correlation_warning(picks) ==
    IF Len(picks) < 2 THEN None
    ELSE LET players == [k \in 1..Len(picks) |-> picks[k].player]
             teams == [p \in {players[k] : k \in 1..Len(players)} |-> TeamOf[p]]
             Flagged(c) == /\ teams[players[c[1]]] = teams[players[c[2]]]
                           /\ teams[players[c[1]]] # UnknownTeam
             hits == SelectSeq(LoopPairs(Len(players)), Flagged)
             same_teams == [k \in 1..Len(hits) |->
                               <<players[hits[k][1]], players[hits[k][2]],
                                 teams[players[hits[k][1]]]>>]
         IN  IF same_teams # <<>> THEN NamedPairs(same_teams) ELSE None

----------------------------------------------------------------------------
(* The leg sets the parlay functions are applied to *)

\* legs of a leg set given to calculate_parlay_probability
MaxProbLegs == 3

\* legs of a leg set given to the correlation functions
MaxLegs == 3

Directions == {"OVER", "UNDER"}
LegProbs == {0, 5000, 5500, 5800, 10000}
\* weight in tenths: the default 0.3 and values beyond the bounds
Weights == {3, 50, -50}

InitProb ==
    /\ \E s \in SeqsUpTo(Directions \X LegProbs, MaxProbLegs) :
           picks_df = [k \in 1..Len(s) |->
                          [player |-> LegNames[k], direction |-> s[k][1],
                           implied_prob |-> s[k][2]]]
    /\ prizepicks_df = <<>>
    /\ market_df = <<>>
    /\ ev_data = None
    /\ weight = 3
    /\ raw_prob = None
    /\ penalty = None
    /\ warning = None
    /\ ArbUnused
    /\ StakeUnused
    /\ AppUnused
    /\ pc = "start_prob"

\* raw_prob = calculate_parlay_probability(selected_picks)
CalcParlayProbability ==
    /\ pc = "start_prob"
    /\ raw_prob' = calculate_parlay_probability(picks_df)
    /\ pc' = "prob_done"
    /\ UNCHANGED <<prizepicks_df, market_df, ev_data, picks_df, weight,
                   penalty, warning,
                   arbVars, stakeVars, appVars>>

NextProb == CalcParlayProbability

SpecProb == InitProb /\ [][NextProb]_vars

InitCorr ==
    /\ \E s \in SeqsUpTo(CorrPlayers, MaxLegs) :
           picks_df = [k \in 1..Len(s) |->
                          [player |-> s[k], direction |-> "OVER",
                           implied_prob |-> 5800]]
    /\ weight \in Weights
    /\ prizepicks_df = <<>>
    /\ market_df = <<>>
    /\ ev_data = None
    /\ raw_prob = None
    /\ penalty = None
    /\ warning = None
    /\ ArbUnused
    /\ StakeUnused
    /\ AppUnused
    /\ pc = "start_corr"

\* penalty = calculate_correlation_penalty(selected_picks, weight)
CalcCorrelationPenalty ==
    /\ pc = "start_corr"
    /\ penalty' = calculate_correlation_penalty(picks_df, weight)
    /\ pc' = "penalty_done"
    /\ UNCHANGED <<prizepicks_df, market_df, ev_data, picks_df, weight,
                   raw_prob, warning,
                   arbVars, stakeVars, appVars>>

\* warning = get_correlation_warning(selected_picks)
GetCorrelationWarning ==
    /\ pc = "penalty_done"
    /\ warning' = get_correlation_warning(picks_df)
    /\ pc' = "warning_done"
    /\ UNCHANGED <<prizepicks_df, market_df, ev_data, picks_df, weight,
                   raw_prob, penalty,
                   arbVars, stakeVars, appVars>>

NextCorr == CalcCorrelationPenalty \/ GetCorrelationWarning

SpecCorr == InitCorr /\ [][NextCorr]_vars

----------------------------------------------------------------------------
(* Properties of the parlay functions *)

\* the exact product, over the legs, of implied_prob (OVER) or
\* 1 - implied_prob (UNDER), as a fraction in lowest terms
RECURSIVE DirectionProduct(_)
DirectionProduct(legs) ==
    IF legs = <<>> THEN <<1, 1>>
    ELSE FracMul(FracOf(IF Head(legs).direction = "OVER"
                        THEN Head(legs).implied_prob
                        ELSE ProbScale - Head(legs).implied_prob),
                 DirectionProduct(Tail(legs)))

\* C6 (as amended): calculate_parlay_probability returns 0 for an empty leg
\* set and otherwise the product over the legs of implied_prob (OVER) or
\* 1 - implied_prob (UNDER) rounded to 4 decimal places; the result is in [0,1].
C6_RoundedProduct ==
    pc = "prob_done" =>
        /\ picks_df = <<>> => raw_prob = 0
        /\ picks_df # <<>> => raw_prob = Round4(DirectionProduct(picks_df))
        /\ raw_prob \in 0..ProbScale

\* C6 witness: OVER and UNDER legs whose product has more than 4 decimals
C6_Witness ==
    /\ pc = "prob_done"
    /\ \E k \in 1..Len(picks_df) : picks_df[k].direction = "OVER"
    /\ \E k \in 1..Len(picks_df) : picks_df[k].direction = "UNDER"
    /\ ProbScale % DirectionProduct(picks_df)[2] # 0
    /\ raw_prob > 0
    /\ raw_prob < ProbScale

\* C6 as stated: the result is 0 for no legs and otherwise equals the product
C6_ExactProduct ==
    pc = "prob_done" =>
        /\ picks_df = <<>> => raw_prob = 0
        /\ picks_df # <<>> =>
               LET f == DirectionProduct(picks_df)
               IN  /\ ProbScale % f[2] = 0
                   /\ raw_prob = f[1] * (ProbScale \div f[2])

\* the players of the legs, in leg order
LegPlayers == [k \in 1..Len(picks_df) |-> picks_df[k].player]

\* the unordered pairs of legs, as positions i < j
LegPairs == {c \in (1..Len(picks_df)) \X (1..Len(picks_df)) : c[1] < c[2]}

\* player p has a known team (TeamOf is get_team_from_player)
KnownTeam(p) == TeamOf[p] # UnknownTeam

\* the coefficient the rule gives players a and b, in hundredths
RuleCoefficient(a, b) ==
    IF KnownTeam(a) /\ KnownTeam(b)
    THEN IF TeamOf[a] = TeamOf[b] THEN -25 ELSE 10
    ELSE 0

RECURSIVE SumOver(_)
SumOver(S) ==
    IF S = {} THEN 0
    ELSE LET c == CHOOSE x \in S : TRUE
         IN  RuleCoefficient(LegPlayers[c[1]], LegPlayers[c[2]]) + SumOver(S \ {c})

\* C7: the penalty is exactly 1.0 for fewer than 2 legs and otherwise
\* clamp(1.0 + average * weight, 0.7, 1.3), average the mean coefficient over
\* all unordered pairs of legs; it always lies in [0.7, 1.3].
C7_PenaltyClamped ==
    pc = "penalty_done" =>
        LET n == Cardinality(LegPairs)
            num == 1000 * n + SumOver(LegPairs) * weight
            den == 1000 * n
        IN  /\ Len(picks_df) < 2 => penalty = <<1, 1>>
            /\ Len(picks_df) >= 2 =>
                   IF 10 * num < 7 * den THEN penalty = <<7, 10>>
                   ELSE IF 10 * num > 13 * den THEN penalty = <<13, 10>>
                   ELSE penalty[1] * den = num * penalty[2]
            /\ 7 * penalty[2] <= 10 * penalty[1]
            /\ 10 * penalty[1] <= 13 * penalty[2]

\* C7 witness: three legs, a weight that drives 1 + average * weight below the
\* lower bound
C7_Witness ==
    /\ pc = "penalty_done"
    /\ Len(picks_df) = 3
    /\ 1000 * 3 + SumOver(LegPairs) * weight < 700 * 3
    /\ penalty = <<7, 10>>

\* the orderings of the legs
LegOrderings ==
    {[k \in 1..Len(picks_df) |-> picks_df[f[k]]] :
        f \in {g \in [1..Len(picks_df) -> 1..Len(picks_df)] :
                  \A a, b \in 1..Len(picks_df) : g[a] = g[b] => a = b}}

\* C8: the coefficient of a pair is symmetric and is -0.25 for the same known
\* team, +0.10 for two different known teams and 0.0 when a team is unknown;
\* the penalty is the same for every ordering of the legs.
C8_SymmetricCoefficient ==
    pc = "penalty_done" =>
        LET M == calculate_correlation_matrix(LegPlayers)
        IN  /\ \A c \in LegPairs :
                   LET a == LegPlayers[c[1]]
                       b == LegPlayers[c[2]]
                   IN  /\ M[c] = M[<<c[2], c[1]>>]
                       /\ M[c] = RuleCoefficient(a, b)
                       /\ calculate_correlation_matrix(<<a, b>>)[<<1, 2>>]
                              = calculate_correlation_matrix(<<b, a>>)[<<1, 2>>]
            /\ \A legs \in LegOrderings :
                   calculate_correlation_penalty(legs, weight) = penalty

\* C8 witness: an unknown player ahead of two team-mates, penalty below 1
C8_Witness ==
    /\ pc = "penalty_done"
    /\ Len(picks_df) = 3
    /\ ~KnownTeam(LegPlayers[1])
    /\ RuleCoefficient(LegPlayers[2], LegPlayers[3]) = -25
    /\ penalty[1] < penalty[2]

\* p is a key of the player -> team mapping
IsKey(p) == \E k \in 1..Len(player_teams) : player_teams[k][1] = p

\* the names in use that are no key of the mapping
NonKeys == {p \in DOMAIN TeamOf : ~IsKey(p)}

\* the names in use that are no key, contain no key and are contained in none
Unmatched == {p \in NonKeys : PartialMatches(p) = {}}

\* the players the warning names
NamedPlayers == IF warning = None THEN {}
                ELSE {warning[k][1] : k \in 1..Len(warning)}
                         \cup {warning[k][2] : k \in 1..Len(warning)}

\* what C9 says of player p: unknown team, coefficient 0.0 in every pair, and
\* never named in a warning
Neutral(p) ==
    /\ TeamOf[p] = UnknownTeam
    /\ \A c \in LegPairs :
           p \in {LegPlayers[c[1]], LegPlayers[c[2]]}
               => calculate_correlation_matrix(LegPlayers)[c] = 0
    /\ p \notin NamedPlayers

\* C9 (as amended): a player name that is not a key of the mapping, contains
\* no key and is contained in no key gets the unknown sentinel "OTHER", so
\* every pair with it has coefficient 0.0 and it is never named in a warning.
C9_UnmatchedIsNeutral ==
    pc = "warning_done" =>
        \A k \in 1..Len(picks_df) :
            LegPlayers[k] \in Unmatched => Neutral(LegPlayers[k])

\* C9 witness: a warning was returned for legs that include an unmatched name
C9_Witness ==
    /\ pc = "warning_done"
    /\ warning # None
    /\ \E k \in 1..Len(picks_df) : LegPlayers[k] \in Unmatched

\* C9 as stated: every player name that is not a key is neutral
C9_NonKeyIsNeutral ==
    pc = "warning_done" =>
        \A k \in 1..Len(picks_df) :
            LegPlayers[k] \in NonKeys => Neutral(LegPlayers[k])

\* the pairs of legs that share a known team
SameTeamPairs ==
    {c \in LegPairs :
        /\ KnownTeam(LegPlayers[c[1]])
        /\ TeamOf[LegPlayers[c[1]]] = TeamOf[LegPlayers[c[2]]]}

\* pair d comes before pair c in leg order
PairBefore(d, c) == d[1] < c[1] \/ (d[1] = c[1] /\ d[2] < c[2])

\* C10: a message is returned exactly when there are at least 2 legs and some
\* pair of legs shares a known team; it names at most 2 pairs, the first two
\* such pairs in leg order.
C10_WarningNamesFirstTwo ==
    pc = "warning_done" =>
        /\ warning # None <=> (Len(picks_df) >= 2 /\ SameTeamPairs # {})
        /\ warning # None =>
               /\ Len(warning) = Min(2, Cardinality(SameTeamPairs))
               /\ \A k \in 1..Len(warning) :
                      \E c \in SameTeamPairs :
                          /\ Cardinality({d \in SameTeamPairs : PairBefore(d, c)}) = k - 1
                          /\ warning[k] = <<LegPlayers[c[1]], LegPlayers[c[2]],
                                            TeamOf[LegPlayers[c[1]]]>>

\* C10 witness: three pairs share a team and the message names two
C10_Witness ==
    /\ pc = "warning_done"
    /\ Cardinality(SameTeamPairs) >= 3
    /\ warning # None
    /\ Len(warning) = 2

----------------------------------------------------------------------------
(* arbitrage_scanner.py: calculate_arbitrage *)

(* profit_pct, the stakes, total_stake and guaranteed_profit are            *)
(* percentages rounded to 2 decimals; they are held in hundredths of a      *)
(* percent (5.26 is 526).  The quotes are plain Python floats, so 1 / 0.0   *)
(* raises ZeroDivisionError.                                                *)

\* the state of the EV engine's caller
evVars == <<prizepicks_df, market_df, ev_data, picks_df, weight, raw_prob,
            penalty, warning>>

\* the EV engine has been given nothing and has returned nothing
EvUnused ==
    /\ prizepicks_df = <<>>
    /\ market_df = <<>>
    /\ ev_data = None
    /\ picks_df = <<>>
    /\ weight = 3
    /\ raw_prob = None
    /\ penalty = None
    /\ warning = None

\* hundredths of a percent in the whole: 100.00 percent
PctScale == 100 * 100

\* self.min_profit_pct = 0.01 (percent), in hundredths of a percent
MIN_PROFIT_PCT == 1

\* the exception a true division by a zero float raises
ZeroDivisionError == "ZeroDivisionError"

\* the position triples (i, j, k), i < j < k <= n, in lexicographic order
LoopTriples(n) ==
    LET S == {c \in (1..n) \X (1..n) \X (1..n) : c[1] < c[2] /\ c[2] < c[3]}
        Before(a, b) == \/ a[1] < b[1]
                        \/ a[1] = b[1] /\ a[2] < b[2]
                        \/ a[1] = b[1] /\ a[2] = b[2] /\ a[3] < b[3]
    IN  [k \in 1..Cardinality(S) |->
            CHOOSE c \in S : Cardinality({d \in S : Before(d, c)}) = k - 1]

\* quotes in the list given to calculate_arbitrage
MaxArbProps == 3

\* the two enumerations, tabulated for every length a quote list can have
PairTable == [n \in 0..MaxArbProps |-> LoopPairs(n)]
TripleTable == [n \in 0..MaxArbProps |-> LoopTriples(n)]

\* itertools.combinations(range(n), 2): the position pairs in the order yielded
Combinations2(n) == PairTable[n]

\* itertools.combinations(range(n), 3): the position triples in the order yielded
Combinations3(n) == TripleTable[n]

\* total_prob: the sum of the quotes at the positions c
TotalProb(ps, c) == SumSeq([k \in 1..Len(c) |-> ps[c[k]].implied_prob])

\* mutant: only the first two quotes of a combination are compared
DistinctFirstTwo(ps, c) == ps[c[1]].player # ps[c[2]].player

\* the combination is not skipped: its players are all different
DistinctPlayers(ps, c) ==
    \A i, j \in 1..Len(c) : i # j => ps[c[i]].player # ps[c[j]].player

\* total_prob < 1.0
IsArb(total) == total < ProbScale

\* profit_pct >= self.min_profit_pct for profit_pct = (1 / total_prob - 1) * 100
ProfitPasses(total) == (ProbScale - total) * PctScale >= MIN_PROFIT_PCT * total

\* mutant: the profit is truncated, not rounded
ProfitPctFloor(total) == ((ProbScale - total) * PctScale) \div total

\* round((1 / total_prob - 1) * 100, 2)
ProfitPct(total) == RoundHalfEven((ProbScale - total) * PctScale, total)

\* mutant: the stake is the quote itself, not its share of the total
StakePctUnshared(p, total) == RoundHalfEven(p * PctScale, ProbScale)

\* round(stake * 100, 2) for stake = (1 / total_prob) * p
StakePct(p, total) == RoundHalfEven(p * PctScale, total)

\* the dict appended for a pair
TwoWayArb(ps, c) ==
    LET total == TotalProb(ps, c)
        prop1 == ps[c[1]]
        prop2 == ps[c[2]]
    IN  [type |-> "Two-way arb",
         players |-> <<prop1.player, prop2.player>>,
         stats |-> <<prop1.stat_type, prop2.stat_type>>,
         profit_pct |-> ProfitPct(total),
         stakes |-> [p \in {prop1.player, prop2.player} |->
                        IF p = prop1.player
                        THEN StakePct(prop1.implied_prob, total)
                        ELSE StakePct(prop2.implied_prob, total)],
         total_stake |-> StakePct(prop1.implied_prob + prop2.implied_prob,
                                  total),
         guaranteed_profit |-> ProfitPct(total)]

\* the dict appended for a triple: 'total_stake': 100 and no 'stakes'
ThreeWayArb(ps, c) ==
    LET total == TotalProb(ps, c)
    IN  [type |-> "Three-way arb",
         players |-> [k \in 1..3 |-> ps[c[k]].player],
         stats |-> [k \in 1..3 |-> ps[c[k]].stat_type],
         profit_pct |-> ProfitPct(total),
         total_stake |-> PctScale,
         guaranteed_profit |-> ProfitPct(total)]

\* 1 / total_prob is evaluated with total_prob = 0.0
Raises(ps, c) == DistinctPlayers(ps, c) /\ TotalProb(ps, c) = 0

\* the combination reaches opportunities.append
Reported(ps, c) ==
    /\ DistinctPlayers(ps, c)
    /\ IsArb(TotalProb(ps, c))
    /\ ProfitPasses(TotalProb(ps, c))

\* the list calculate_arbitrage returns, or the exception that leaves it
calculate_arbitrage(ps) ==
    LET all2 == Combinations2(Len(ps))
        all3 == Combinations3(Len(ps))
        Test(c) == Reported(ps, c)
        pairs == SelectSeq(all2, Test)
        triples == SelectSeq(all3, Test)
    IN  IF \E k \in 1..Len(all2) : Raises(ps, all2[k])
        THEN ZeroDivisionError
        ELSE IF \E k \in 1..Len(all3) : Raises(ps, all3[k])
        THEN ZeroDivisionError
        ELSE [k \in 1..Len(pairs) |-> TwoWayArb(ps, pairs[k])]
             \o [k \in 1..Len(triples) |-> ThreeWayArb(ps, triples[k])]

(* The quote lists the scanner is applied to *)

ArbPlayers == {"LeBron James", "Stephen Curry", "Kevin Durant"}
\* 0.0, 0.30, 0.45, 0.495, 0.50, 0.55 and 1.0
ArbProbs == {0, 3000, 4500, 4950, 5000, 5500, ProbScale}
ArbQuotes ==
    [player : ArbPlayers, stat_type : {"Points"}, implied_prob : ArbProbs]

InitArb ==
    /\ props \in SeqsUpTo(ArbQuotes, MaxArbProps)
    /\ arb_opportunities = None
    /\ ev_columns = {}
    /\ corr_arb = None
    /\ EvUnused
    /\ StakeUnused
    /\ AppUnused
    /\ pc = "start_arb"

\* arb_opportunities = arb_scanner.calculate_arbitrage(props)
CalculateArbitrage ==
    /\ pc = "start_arb"
    /\ arb_opportunities' = calculate_arbitrage(props)
    /\ pc' = "arb_done"
    /\ UNCHANGED <<evVars, props, ev_columns, corr_arb, stakeVars, appVars>>

NextArb == CalculateArbitrage

SpecArb == InitArb /\ [][NextArb]_vars

----------------------------------------------------------------------------
(* Properties of calculate_arbitrage *)

\* calculate_arbitrage has returned a list
ArbReturned == pc = "arb_done" /\ arb_opportunities # ZeroDivisionError

\* the opportunities of the returned list
Opps == IF ArbReturned
        THEN {arb_opportunities[k] : k \in 1..Len(arb_opportunities)}
        ELSE {}
TwoWays == {o \in Opps : o.type = "Two-way arb"}
ThreeWays == {o \in Opps : o.type = "Three-way arb"}

\* the positions of the quote list taken two and three at a time
PositionPairs ==
    {c \in (1..Len(props)) \X (1..Len(props)) : c[1] < c[2]}
PositionTriples ==
    {c \in (1..Len(props)) \X (1..Len(props)) \X (1..Len(props)) :
        c[1] < c[2] /\ c[2] < c[3]}

\* the quotes at positions i and j belong to different players
Different(i, j) == props[i].player # props[j].player

\* the quotes at the positions c, summed
QuoteSum(c) ==
    IF Len(c) = 2
    THEN props[c[1]].implied_prob + props[c[2]].implied_prob
    ELSE props[c[1]].implied_prob + props[c[2]].implied_prob
         + props[c[3]].implied_prob

\* the opportunity o names the players at the positions c, in that order
Names(o, c) ==
    /\ Len(o.players) = Len(c)
    /\ \A k \in 1..Len(c) : o.players[k] = props[c[k]].player

\* v is num / den to the nearest unit
Nearest(v, num, den) == 2 * Abs(v * den - num) <= den

\* o carries the profit of the positions c: (1 / total - 1) * 100 to 2 decimals
ProfitOf(o, c) ==
    /\ QuoteSum(c) > 0
    /\ Nearest(o.profit_pct, (ProbScale - QuoteSum(c)) * PctScale, QuoteSum(c))

\* C11: a two-way opportunity is reported only for two quotes of different
\* players whose implied probabilities sum to strictly less than 1.0 (two
\* quotes of 0.55 yield nothing), and no reported opportunity, two-way or
\* three-way, names the same player twice.
C11_DifferentPlayersBelowOne ==
    /\ \A o \in TwoWays :
           \E c \in PositionPairs :
               /\ Names(o, c)
               /\ Different(c[1], c[2])
               /\ QuoteSum(c) < ProbScale
               /\ ProfitOf(o, c)
    /\ \A o \in Opps :
           \A i, j \in 1..Len(o.players) : i # j => o.players[i] # o.players[j]
    /\ (/\ pc = "arb_done"
        /\ Len(props) = 2
        /\ \A k \in 1..2 : props[k].implied_prob = 5500)
           => arb_opportunities = <<>>

\* two quotes of one player sum to less than 1.0 next to a reported pair, and a
\* three-way opportunity is reported
C11_Witness ==
    \/ /\ TwoWays # {}
       /\ \E c \in PositionPairs :
              ~Different(c[1], c[2]) /\ QuoteSum(c) < ProbScale /\ QuoteSum(c) > 0
    \/ /\ ThreeWays # {}
       /\ \A k \in 1..Len(props) : props[k].implied_prob > 0

\* C12: every reported opportunity carries profit_pct = (1 / total_prob - 1) *
\* 100 to 2 decimals for the quotes it was built from, and its
\* guaranteed_profit equals its profit_pct; the quotes 0.45 and 0.50 of two
\* players give a single opportunity with profit_pct 5.26.
C12_ProfitFromTotal ==
    /\ \A o \in Opps :
           /\ \E c \in PositionPairs \cup PositionTriples :
                  Names(o, c) /\ ProfitOf(o, c)
           /\ o.guaranteed_profit = o.profit_pct
    /\ (/\ pc = "arb_done"
        /\ Len(props) = 2
        /\ Different(1, 2)
        /\ props[1].implied_prob = 4500
        /\ props[2].implied_prob = 5000)
           => /\ ArbReturned
              /\ Len(arb_opportunities) = 1
              /\ arb_opportunities[1].profit_pct = 526

\* the quotes 0.45 and 0.50 were scanned, and so was a pair whose profit is
\* rounded upwards
C12_Witness ==
    /\ ArbReturned
    /\ \/ /\ Len(props) = 2
          /\ Different(1, 2)
          /\ props[1].implied_prob = 4500
          /\ props[2].implied_prob = 5000
       \/ \E o \in Opps :
              \E c \in PositionPairs :
                  /\ Names(o, c) /\ ProfitOf(o, c)
                  /\ o.profit_pct * QuoteSum(c)
                         > (ProbScale - QuoteSum(c)) * PctScale

\* C13: with the default settings no reported opportunity has profit_pct
\* below 1.0 percent.
C13_ProfitAtLeastOnePercent ==
    \A o \in Opps : o.profit_pct >= 100

\* the exact share: stake_i = 100 * implied_prob_i / total_prob
ExactShare(o, c, k) ==
    o.stakes[props[c[k]].player] * QuoteSum(c)
        = props[c[k]].implied_prob * PctScale

\* both legs pay total_stake * (1 + profit_pct / 100):
\* stake_i = implied_prob_i * total_stake * (1 + profit_pct / 100), the
\* total_stake being counted in whole stakes
EqualPayout(o, c, k) ==
    o.stakes[props[c[k]].player] * ProbScale
        = props[c[k]].implied_prob * (o.total_stake \div PctScale)
              * (PctScale + o.profit_pct)

\* C14 as stated: each two-way stake is exactly implied_prob_i / total_prob of
\* the whole stake, the two stakes sum to the total_stake of 100 percent, and
\* both legs pay exactly total_stake * (1 + profit_pct / 100).
C14_ExactShares ==
    \A o \in TwoWays :
        \E c \in PositionPairs :
            /\ Names(o, c)
            /\ Different(c[1], c[2])
            /\ \A k \in 1..2 : ExactShare(o, c, k) /\ EqualPayout(o, c, k)
            /\ o.stakes[o.players[1]] + o.stakes[o.players[2]] = o.total_stake
            /\ o.total_stake = PctScale

\* C14: each two-way stake is 100 * implied_prob_i / total_prob rounded to 2
\* decimals, and the two reported stakes sum to the reported total_stake of
\* 100 percent.
C14_RoundedShares ==
    \A o \in TwoWays :
        \E c \in PositionPairs :
            /\ Names(o, c)
            /\ Different(c[1], c[2])
            /\ QuoteSum(c) > 0
            /\ \A k \in 1..2 :
                   Nearest(o.stakes[props[c[k]].player],
                           props[c[k]].implied_prob * PctScale, QuoteSum(c))
            /\ o.stakes[o.players[1]] + o.stakes[o.players[2]] = o.total_stake
            /\ o.total_stake = PctScale

\* a pair of non-zero quotes is reported with stakes that are not exact shares
C14_Witness ==
    \E o \in TwoWays :
        \E c \in PositionPairs :
            /\ Names(o, c)
            /\ ProfitOf(o, c)
            /\ \A k \in 1..2 :
                   /\ props[c[k]].implied_prob > 0
                   /\ Nearest(o.stakes[props[c[k]].player],
                              props[c[k]].implied_prob * PctScale, QuoteSum(c))
                   /\ ~ExactShare(o, c, k)

\* the pairs and triples of different players whose quotes sum to less than 1.0
Qualifying ==
    {c \in PositionPairs \cup PositionTriples :
        /\ \A i, j \in 1..Len(c) : i # j => Different(c[i], c[j])
        /\ QuoteSum(c) < ProbScale}

\* the opportunity o is the one of the positions c, whatever the input order
Describes(o, c) ==
    /\ o.type = (IF Len(c) = 2 THEN "Two-way arb" ELSE "Three-way arb")
    /\ {o.players[k] : k \in 1..Len(o.players)}
           = {props[c[k]].player : k \in 1..Len(c)}
    /\ ProfitOf(o, c)

\* the positions d and c give opportunities that differ at most in the order
\* their players are named in
SameDescription(d, c) ==
    /\ Len(d) = Len(c)
    /\ {props[d[k]].player : k \in 1..Len(d)}
           = {props[c[k]].player : k \in 1..Len(c)}
    /\ QuoteSum(d) > 0
    /\ QuoteSum(c) > 0
    /\ RoundHalfEven((ProbScale - QuoteSum(d)) * PctScale, QuoteSum(d))
           = RoundHalfEven((ProbScale - QuoteSum(c)) * PctScale, QuoteSum(c))

\* C15: every qualifying pair and triple appears in the result exactly once,
\* and nothing else appears.
C15_EachCombinationOnce ==
    pc = "arb_done" =>
        /\ arb_opportunities # ZeroDivisionError
        /\ Len(arb_opportunities) = Cardinality(Qualifying)
        /\ \A c \in Qualifying :
               Cardinality({k \in 1..Len(arb_opportunities) :
                               Describes(arb_opportunities[k], c)})
                   = Cardinality({d \in Qualifying : SameDescription(d, c)})

\* C16: every three-way opportunity reports a stake per leg,
\* stake_i = (1 / total_prob) * implied_prob_i, the stakes summing to the
\* whole stake.
C16_ThreeWayStakes ==
    \A o \in ThreeWays :
        /\ "stakes" \in DOMAIN o
        /\ \E c \in PositionTriples :
               /\ Names(o, c)
               /\ \A k \in 1..3 :
                      Nearest(o.stakes[props[c[k]].player],
                              props[c[k]].implied_prob * PctScale, QuoteSum(c))

\* C17: for quotes in [0, 1], 0 and 1 included, calculate_arbitrage returns a
\* list; it never fails with a division by zero.
C17_NoDivisionByZero ==
    pc = "arb_done" => arb_opportunities # ZeroDivisionError

----------------------------------------------------------------------------
(* arbitrage_scanner.py: find_correlation_arb *)

\* the elements of a sequence
Range(s) == {s[k] : k \in 1..Len(s)}

\* the sequences of a sequence, joined in order
RECURSIVE Concat(_)
Concat(ss) == IF ss = <<>> THEN <<>> ELSE Head(ss) \o Concat(Tail(ss))

\* the pairs an outer loop over s and an inner loop over t visit, in order
Cross(s, t) ==
    [k \in 1..(Len(s) * Len(t)) |->
        <<s[((k - 1) \div Len(t)) + 1], t[((k - 1) % Len(t)) + 1]>>]

\* the Python slice s[lo:hi]
Slice(s, lo, hi) == SubSeq(s, lo + 1, Min(hi, Len(s)))

\* Series.unique(): the values in the order they first appear
RECURSIVE Unique(_)
Unique(s) ==
    IF s = <<>> THEN <<>>
    ELSE LET front == Unique(SubSeq(s, 1, Len(s) - 1))
         IN  IF s[Len(s)] \in Range(front) THEN front
             ELSE Append(front, s[Len(s)])

\* the group keys of groupby('game_id'), ascending
GroupKeys(df) ==
    LET S == {df[k].game_id : k \in 1..Len(df)}
    IN  [k \in 1..Cardinality(S) |->
            CHOOSE g \in S : Cardinality({h \in S : h < g}) = k - 1]

\* the rows of one group, in frame order
GameProps(df, g) ==
    LET InGame(r) == r.game_id = g IN SelectSeq(df, InGame)

\* game_props[game_props['player'] == player]
PlayerProps(game_props, player) ==
    LET OfPlayer(r) == r.player = player IN SelectSeq(game_props, OfPlayer)

\* mutant: the teams are not compared
OppositeDirections(p1, p2) == p1.direction # p2.direction

\* p1.team == p2.team and p1.direction != p2.direction
SameTeamOpposite(p1, p2) ==
    p1.team = p2.team /\ p1.direction # p2.direction

\* the dict appended for the rows p1 and p2
CorrelationOpp(p1, p2) ==
    [type |-> "Same-game correlation",
     players |-> <<p1.player, p2.player>>,
     stats |-> <<p1.stat_type, p1.direction, p2.stat_type, p2.direction>>,
     ev |-> (p1.ev + p2.ev) \div 2,
     note |-> "Opposing directions - potential hedge"]

\* the two itertuples loops for one pair of players
PropPairOpps(game_props, player1, player2) ==
    LET pairs == Cross(PlayerProps(game_props, player1),
                       PlayerProps(game_props, player2))
        Flagged(c) == SameTeamOpposite(c[1], c[2])
        kept == SelectSeq(pairs, Flagged)
    IN  [k \in 1..Len(kept) |-> CorrelationOpp(kept[k][1], kept[k][2])]

\* the body of the loop over the games
GameOpps(game_props) ==
    LET players == Unique([k \in 1..Len(game_props) |-> game_props[k].player])
        loops == Cross(Slice(players, 0, 5), Slice(players, 1, 5))
    IN  IF Len(players) >= 2
        THEN Concat([k \in 1..Len(loops) |->
                        IF loops[k][1] = loops[k][2] THEN <<>>
                        ELSE PropPairOpps(game_props, loops[k][1],
                                          loops[k][2])])
        ELSE <<>>

\* the list find_correlation_arb returns for a frame with these columns
find_correlation_arb(df, columns) ==
    IF "game_id" \in columns
    THEN LET games == GroupKeys(df)
         IN  Concat([k \in 1..Len(games) |->
                        GameOpps(GameProps(df, games[k]))])
    ELSE <<>>

(* The frames find_correlation_arb is applied to *)

\* rows in the frame given to find_correlation_arb
MaxGameRows == 6

\* rows in a frame that has no game_id column
MaxPlainRows == 2

\* the player of the k-th row, unless the row is a further prop of the first
\* player
GamePlayers ==
    <<"LeBron James", "Anthony Davis", "Austin Reaves", "Jayson Tatum",
      "Jaylen Brown", "Derrick White", "Stephen Curry", "Klay Thompson",
      "Kevin Durant">>

BaseColumns == {"player", "stat_type", "team", "direction", "ev"}

\* what a row can be: its game, team and direction, and whose prop it is
RowKinds ==
    {[game_id |-> 1, team |-> "LAL", direction |-> "OVER", own |-> TRUE],
     [game_id |-> 1, team |-> "LAL", direction |-> "UNDER", own |-> TRUE],
     [game_id |-> 1, team |-> "BOS", direction |-> "UNDER", own |-> TRUE],
     [game_id |-> 2, team |-> "LAL", direction |-> "OVER", own |-> FALSE],
     [game_id |-> 2, team |-> "LAL", direction |-> "UNDER", own |-> TRUE]}

GameRow(kind, k) ==
    [game_id |-> kind.game_id,
     player |-> IF kind.own THEN GamePlayers[k] ELSE GamePlayers[1],
     stat_type |-> "Points",
     team |-> kind.team,
     direction |-> kind.direction,
     ev |-> IF kind.direction = "OVER" THEN 300 ELSE 500]

InitCorrArb ==
    /\ \E s \in SeqsUpTo(RowKinds, MaxGameRows) :
           ev_data = [k \in 1..Len(s) |-> GameRow(s[k], k)]
    /\ ev_columns \in {BaseColumns \cup {"game_id"}}
                          \cup (IF Len(ev_data) <= MaxPlainRows
                                THEN {BaseColumns} ELSE {})
    /\ prizepicks_df = <<>>
    /\ market_df = <<>>
    /\ picks_df = <<>>
    /\ weight = 3
    /\ raw_prob = None
    /\ penalty = None
    /\ warning = None
    /\ props = <<>>
    /\ arb_opportunities = None
    /\ corr_arb = None
    /\ StakeUnused
    /\ AppUnused
    /\ pc = "start_corr_arb"

\* corr_arb = arb_scanner.find_correlation_arb(ev_data)
FindCorrelationArb ==
    /\ pc = "start_corr_arb"
    /\ corr_arb' = find_correlation_arb(ev_data, ev_columns)
    /\ pc' = "corr_arb_done"
    /\ UNCHANGED <<evVars, props, arb_opportunities, ev_columns, stakeVars, appVars>>

NextCorrArb == FindCorrelationArb

SpecCorrArb == InitCorrArb /\ [][NextCorrArb]_vars

----------------------------------------------------------------------------
(* Properties of find_correlation_arb *)

CorrArbDone == pc = "corr_arb_done"
HasGameId == "game_id" \in ev_columns
GameRows == 1..Len(ev_data)

\* the rows i and j are props of two different players in one game
SameGamePair(i, j) ==
    /\ ev_data[i].game_id = ev_data[j].game_id
    /\ ev_data[i].player # ev_data[j].player

\* the place of row i's player among the players of its game, in the order
\* the players first appear: the players seen in the game before row i's
\* player is, and that player
PlayerRank(i) ==
    LET mine == {h \in GameRows :
                    /\ ev_data[h].game_id = ev_data[i].game_id
                    /\ ev_data[h].player = ev_data[i].player}
        first == CHOOSE h \in mine : \A g \in mine : h <= g
    IN  Cardinality({ev_data[h].player : h \in {g \in 1..first :
                        ev_data[g].game_id = ev_data[i].game_id}})

\* the entry o names the players of rows i and j, in either order
NamesBoth(o, i, j) ==
    {o.players[1], o.players[2]} = {ev_data[i].player, ev_data[j].player}

\* C18 as stated: every pair of props of two different players in one game
\* with opposite directions is flagged, whatever the number of players; no
\* pair from different games is flagged; without a game grouping the list is
\* empty.
C18_EverySameGameOppositePair ==
    CorrArbDone =>
        /\ HasGameId =>
               \A i, j \in GameRows :
                   (/\ SameGamePair(i, j)
                    /\ ev_data[i].direction # ev_data[j].direction)
                       => \E k \in 1..Len(corr_arb) :
                              NamesBoth(corr_arb[k], i, j)
        /\ \A k \in 1..Len(corr_arb) :
               \E i, j \in GameRows :
                   SameGamePair(i, j) /\ NamesBoth(corr_arb[k], i, j)
        /\ ~HasGameId => corr_arb = <<>>

\* the ordered row pairs the two player loops reach and the test lets through
FlaggedPairs ==
    LET rank == [i \in GameRows |-> PlayerRank(i)]
    IN  {c \in GameRows \X GameRows :
            /\ SameGamePair(c[1], c[2])
            /\ ev_data[c[1]].team = ev_data[c[2]].team
            /\ ev_data[c[1]].direction # ev_data[c[2]].direction
            /\ rank[c[1]] <= 5
            /\ rank[c[2]] >= 2
            /\ rank[c[2]] <= 5}

\* C18: the list holds one entry for each ordered pair of props of two
\* different players of one game that have the same team and opposite
\* directions, the first player among the first five of the game and the
\* second among its second to fifth, and nothing else; no pair from different
\* games is flagged; without a game_id column the list is empty.
C18_SameTeamFirstFive ==
    CorrArbDone =>
        IF HasGameId
        THEN LET flagged == FlaggedPairs
                 shown == [c \in flagged |->
                              <<ev_data[c[1]].player, ev_data[c[1]].stat_type,
                                ev_data[c[1]].direction,
                                ev_data[c[2]].player, ev_data[c[2]].stat_type,
                                ev_data[c[2]].direction>>]
                 entry == [k \in 1..Len(corr_arb) |->
                              <<corr_arb[k].players[1], corr_arb[k].stats[1],
                                corr_arb[k].stats[2],
                                corr_arb[k].players[2], corr_arb[k].stats[3],
                                corr_arb[k].stats[4]>>]
             IN  /\ Len(corr_arb) = Cardinality(flagged)
                 /\ \A k \in 1..Len(corr_arb) :
                        \E c \in flagged : entry[k] = shown[c]
                 /\ \A c \in flagged :
                        Cardinality({k \in 1..Len(corr_arb) :
                                        entry[k] = shown[c]})
                            = Cardinality({d \in flagged :
                                              shown[d] = shown[c]})
        ELSE corr_arb = <<>>

\* a game of six players is scanned: a pair is flagged, a pair of opposite
\* directions on two teams is not, and neither is a pair with the sixth player
C18_Witness ==
    /\ CorrArbDone
    /\ HasGameId
    /\ corr_arb # <<>>
    /\ \E i, j \in GameRows :
           /\ SameGamePair(i, j)
           /\ ev_data[i].direction # ev_data[j].direction
           /\ ev_data[i].team # ev_data[j].team
    /\ \E i, j \in GameRows :
           /\ SameGamePair(i, j)
           /\ ev_data[i].direction # ev_data[j].direction
           /\ ev_data[i].team = ev_data[j].team
           /\ PlayerRank(j) > 5
           /\ \A k \in 1..Len(corr_arb) : ~NamesBoth(corr_arb[k], i, j)

----------------------------------------------------------------------------
(* bankroll_manager.py: kelly_criterion, calculate_stake *)

(* Decimal odds are held in tenths (2.0 is 20), an edge and a unit size in  *)
(* thousandths (0.05 is 50), a Kelly fraction in hundredths (0.25 is 25).   *)
(* A stake percentage is an exact fraction <<num, den>> of the bankroll;    *)
(* the reported percentages are in hundredths of a percent and the amount   *)
(* in cents.                                                                *)

OddsScale == 10
EdgeScale == 10 * 100

\* full_kelly=0.25, the default of kelly_criterion
DEFAULT_FULL_KELLY == 25

\* unit_size=0.01, the default of calculate_stake
DEFAULT_UNIT_SIZE == 10

\* f < h for fractions with positive denominators
FracLess(f, h) == f[1] * h[2] < h[1] * f[2]

\* mutant: the edge alone is taken for the win probability
WinProbabilityNoBase(e) == e

\* p = 0.5 + edge, in thousandths
WinProbability(e) == (EdgeScale \div 2) + e

\* kelly = (p * odds - 1) / (odds - 1) for odds > 1
KellyFormula(o, e) ==
    <<WinProbability(e) * o - EdgeScale * OddsScale,
      EdgeScale * (o - OddsScale)>>

\* kelly_criterion(odds, edge, full_kelly)
kelly_criterion(o, e, fk) ==
    IF o <= OddsScale \/ e <= 0 THEN <<0, 1>>
    ELSE LET kelly == KellyFormula(o, e)
             scaled == Reduce(kelly[1] * fk, kelly[2] * 100)
         IN  IF FracLess(<<0, 1>>, scaled) THEN scaled ELSE <<0, 1>>

\* mutant: the confidence percentage is not bounded
ConfidenceUnclamped(e) == Reduce(2 * e, EdgeScale)

\* min(0.05, max(0.005, edge * 2))
ConfidencePct(e) == Reduce(Min(50, Max(5, 2 * e)), EdgeScale)

\* mutant: the Kelly percentage is always one of the methods
MethodsWithKelly(o, e, unit_size) ==
    <<<<"Kelly", kelly_criterion(o, e, DEFAULT_FULL_KELLY)>>,
      <<"Fixed 1%", Reduce(unit_size, EdgeScale)>>,
      <<"Confidence", ConfidencePct(e)>>>>

\* the methods list: Kelly only when it is positive, then the other two
Methods(o, e, unit_size) ==
    LET kelly == kelly_criterion(o, e, DEFAULT_FULL_KELLY)
    IN  (IF FracLess(<<0, 1>>, kelly)
         THEN <<<<"Kelly", kelly>>>> ELSE <<>>)
        \o <<<<"Fixed 1%", Reduce(unit_size, EdgeScale)>>,
             <<"Confidence", ConfidencePct(e)>>>>

\* min([pct for _, pct in methods])
MinPct(methods) ==
    LET k == CHOOSE i \in 1..Len(methods) :
                 \A j \in 1..Len(methods) :
                     ~FracLess(methods[j][2], methods[i][2])
    IN  methods[k][2]

\* round(pct * 100, 2), in hundredths of a percent
RoundPct(f) == RoundHalfEven(f[1] * PctScale, f[2])

\* calculate_stake(odds, edge, unit_size) with self.bankroll = bk cents
calculate_stake(bk, o, e, unit_size) ==
    LET methods == Methods(o, e, unit_size)
        recommended_pct == MinPct(methods)
    IN  [amount |-> RoundHalfEven(bk * recommended_pct[1], recommended_pct[2]),
         percentage |-> RoundPct(recommended_pct),
         methods |-> [name \in {methods[k][1] : k \in 1..Len(methods)} |->
                         RoundPct((CHOOSE m \in Range(methods) :
                                      m[1] = name)[2])]]

(* The requests the bankroll manager is given *)

\* 0.5, 1.0, 1.1, 1.5, 2.0 and 3.0
StakeOdds == {5, 10, 11, 15, 20, 30}
\* -0.02, 0, 0.002, 0.004, 0.02, 0.05, 0.1 and 0.3
StakeEdges == {-20, 0, 2, 4, 20, 50, 100, 300}
\* the 25%, 50%, 75% and 100% Kelly of the calculator
KellyFractions == {25, 50, 75, 100}

InitStake ==
    /\ bankroll = INITIAL_BANKROLL
    /\ odds \in StakeOdds
    /\ edge \in StakeEdges
    /\ full_kelly \in KellyFractions
    /\ kelly_pct = None
    /\ stake_info = None
    /\ EvUnused
    /\ ArbUnused
    /\ AppUnused
    /\ pc = "start_stake"

\* kelly_pct = bankroll_mgr.kelly_criterion(odds, edge, full_kelly)
KellyCriterion ==
    /\ pc = "start_stake"
    /\ kelly_pct' = kelly_criterion(odds, edge, full_kelly)
    /\ pc' = "kelly_done"
    /\ UNCHANGED <<evVars, arbVars, bankroll, odds, edge, full_kelly,
                   stake_info, appVars>>

\* stake_info = bankroll_mgr.calculate_stake(odds, edge)
CalculateStake ==
    /\ pc = "kelly_done"
    /\ stake_info' = calculate_stake(bankroll, odds, edge, DEFAULT_UNIT_SIZE)
    /\ pc' = "stake_done"
    /\ UNCHANGED <<evVars, arbVars, bankroll, odds, edge, full_kelly,
                   kelly_pct, appVars>>

\* the Kelly calculator: stake_info =
\* bankroll_mgr.calculate_stake(kelly_odds, kelly_edge, kelly_fraction);
\* the third positional parameter of calculate_stake is unit_size
KellyCalculator ==
    /\ pc = "start_stake"
    /\ stake_info' = calculate_stake(bankroll, odds, edge,
                                     full_kelly * (EdgeScale \div 100))
    /\ pc' = "calculator_done"
    /\ UNCHANGED <<evVars, arbVars, bankroll, odds, edge, full_kelly,
                   kelly_pct, appVars>>

NextStake == KellyCriterion \/ CalculateStake \/ KellyCalculator

SpecStake == InitStake /\ [][NextStake]_vars

----------------------------------------------------------------------------
(* Properties of kelly_criterion and calculate_stake *)

\* the request is not degenerate: odds > 1 and edge > 0
ProperRequest == odds > OddsScale /\ edge > 0

\* f and h are the same number
FracEq(f, h) == f[1] * h[2] = h[1] * f[2]

\* max(0, ((0.5 + edge) * odds - 1) / (odds - 1)), in lowest terms
ClampedKelly ==
    LET num == ((EdgeScale \div 2) + edge) * odds - EdgeScale * OddsScale
        den == EdgeScale * (odds - OddsScale)
    IN  IF num > 0 THEN Reduce(num, den) ELSE <<0, 1>>

\* C19: for odds > 1 and edge > 0 kelly_criterion returns
\* max(0, ((0.5 + edge) * odds - 1) / (odds - 1)) multiplied by the Kelly
\* fraction, and the result is never negative.
C19_FractionalKelly ==
    (pc \in {"kelly_done", "stake_done"} /\ ProperRequest) =>
        /\ kelly_pct[2] > 0
        /\ kelly_pct[1] >= 0
        /\ kelly_pct[1] * (ClampedKelly[2] * 100)
               = kelly_pct[2] * (ClampedKelly[1] * full_kelly)

\* the formula is positive for one request and clamped to 0 for another
C19_Witness ==
    /\ pc = "kelly_done"
    /\ ProperRequest
    /\ \/ kelly_pct[1] > 0 /\ full_kelly # DEFAULT_FULL_KELLY
       \/ /\ kelly_pct[1] = 0
          /\ ((EdgeScale \div 2) + edge) * odds < EdgeScale * OddsScale

\* the three percentages of C20: fractional Kelly, fixed 1%, confidence
KellyBound == kelly_criterion(odds, edge, DEFAULT_FULL_KELLY)
FixedBound == <<1, 100>>
ConfidenceBound ==
    IF 2 * edge < 5 THEN <<5, EdgeScale>>
    ELSE IF 2 * edge > 50 THEN <<50, EdgeScale>>
    ELSE <<2 * edge, EdgeScale>>

\* the reported percentage is the fraction f to 2 decimals of a percent
ReportsPct(f) == Nearest(stake_info.percentage, f[1] * PctScale, f[2])

\* bankroll 1000, odds 2.0, edge 0.05 give 1 percent and 10.00
StakeExample ==
    (/\ pc = "stake_done"
     /\ bankroll = INITIAL_BANKROLL /\ odds = 20 /\ edge = 50)
        => stake_info.percentage = 100 /\ stake_info.amount = 1000

\* C20 as stated: for odds > 1 and edge > 0 the percentage is the minimum of
\* the Kelly percentage (0 when clamped), the fixed 1 percent and the
\* confidence percentage; bankroll 1000, odds 2.0, edge 0.05 give 1 percent
\* and the amount 10.
C20_MinOfThree ==
    /\ (pc = "stake_done" /\ ProperRequest) =>
           \E f \in {KellyBound, FixedBound, ConfidenceBound} :
               /\ ReportsPct(f)
               /\ \A h \in {KellyBound, FixedBound, ConfidenceBound} :
                      ~FracLess(h, f)
    /\ StakeExample

\* C20: for odds > 1 and edge > 0 the percentage is the minimum of the fixed
\* 1 percent, the confidence percentage and, only when it is positive, the
\* Kelly percentage, to 2 decimals; the amount is that share of the
\* bankroll; bankroll 1000, odds 2.0, edge 0.05 give 1 percent and 10.
C20_MinOfPositive ==
    /\ (pc = "stake_done" /\ ProperRequest) =>
           LET bounds == {FixedBound, ConfidenceBound}
                             \cup (IF KellyBound[1] > 0 THEN {KellyBound}
                                   ELSE {})
           IN  \E f \in bounds :
                   /\ ReportsPct(f)
                   /\ \A h \in bounds : ~FracLess(h, f)
                   /\ Nearest(stake_info.amount, bankroll * f[1], f[2])
    /\ StakeExample

\* the Kelly percentage is clamped to 0 and a stake is recommended all the
\* same, or the Kelly percentage is positive and the smallest of the three
C20_Witness ==
    /\ pc = "stake_done"
    /\ ProperRequest
    /\ \/ KellyBound[1] = 0 /\ stake_info.percentage > 0
       \/ /\ KellyBound[1] > 0
          /\ FracLess(KellyBound, FixedBound)
          /\ FracLess(KellyBound, ConfidenceBound)
          /\ ReportsPct(KellyBound)

\* the smaller of the fixed and the confidence percentage
NonKellyBound ==
    IF FracLess(ConfidenceBound, FixedBound) THEN ConfidenceBound
    ELSE FixedBound

\* C21: for degenerate inputs (odds <= 1 or edge <= 0) kelly_criterion
\* returns 0, with no division by zero, and calculate_stake recommends the
\* smaller of the fixed and the confidence percentage, which is strictly
\* positive.
C21_DegenerateRequest ==
    /\ (pc \in {"kelly_done", "stake_done"} /\ ~ProperRequest) =>
           kelly_pct = <<0, 1>>
    /\ (pc = "stake_done" /\ ~ProperRequest) =>
           /\ ReportsPct(NonKellyBound)
           /\ stake_info.percentage > 0
           /\ "Kelly" \notin DOMAIN stake_info.methods

\* a stake was asked for odds of exactly 1 and a positive edge, or for a
\* negative edge
C21_Witness ==
    /\ pc = "stake_done"
    /\ \/ odds = OddsScale /\ edge > 0
       \/ odds > OddsScale /\ edge < 0

\* C22: the Kelly fraction the caller supplies is the multiplier of the Kelly
\* component: the Kelly percentage of the breakdown is the clamped formula
\* times the supplied fraction, and the fixed bound is 1 percent whatever the
\* fraction.
C22_FractionScalesKelly ==
    (pc = "calculator_done" /\ ProperRequest) =>
        /\ stake_info.methods["Fixed 1%"] = 100
        /\ "Kelly" \in DOMAIN stake_info.methods =>
               LET supplied == kelly_criterion(odds, edge, full_kelly)
               IN  Nearest(stake_info.methods["Kelly"],
                           supplied[1] * PctScale, supplied[2])

\* C29: for a fixed bankroll and fixed odds > 1 the recommended percentage
\* does not decrease when the edge grows, a zero or negative smaller edge
\* included.
C29_MonotoneInEdge ==
    (pc = "stake_done" /\ odds > OddsScale) =>
        \A e \in StakeEdges :
            e <= edge =>
                calculate_stake(bankroll, odds, e, DEFAULT_UNIT_SIZE).percentage
                    <= stake_info.percentage

----------------------------------------------------------------------------
(* A further property of find_correlation_arb *)

\* the entries o and q show the same two props, the players swapped
Swapped(o, q) ==
    /\ o.players = <<q.players[2], q.players[1]>>
    /\ o.stats = <<q.stats[3], q.stats[4], q.stats[1], q.stats[2]>>

\* C30: find_correlation_arb reports each unordered pair of props at most
\* once: the list never holds an entry for two props and another entry for
\* the same two props with the players swapped.
C30_EachPairOnce ==
    CorrArbDone =>
        \A k, l \in 1..Len(corr_arb) :
            k # l => ~Swapped(corr_arb[k], corr_arb[l])

----------------------------------------------------------------------------
(* bankroll_manager.py: update_bankroll, get_bet_limits *)

(* Amounts are in cents; the three limits, being thousandths of the         *)
(* bankroll, are in thousandths of a cent.  SpecLedger follows one          *)
(* BankrollManager object through the calls made on it: settlements as the  *)
(* Track Bets page makes them, and the three calls that read the bankroll.  *)

\* mutant: the stake is taken off the bankroll besides the profit
update_bankroll_less_stake(bk, stake, profit) == bk + profit - stake

\* self.bankroll += profit; the new bankroll
update_bankroll(bk, stake, profit) == bk + profit

\* the dict get_bet_limits returns
get_bet_limits(bk) ==
    [min_bet |-> Max(1 * 100 * 1000, bk),
     max_bet |-> bk * 50,
     suggested_unit |-> bk * 10]

(* The settlements and requests the bankroll manager is given *)

\* update_bankroll calls in one run
MaxSettlements == 2

\* stakes of 500.00 and 1500.00; the second exceeds the initial bankroll
BetStakes == {500 * 100, 1500 * 100}
\* the decimal odds of the settled bets, 2.0 and 4.0
BetOdds == {20, 40}

\* the profit the settlement page passes: stake * (odds - 1) for a win, the
\* stake taken off for a loss
WinProfit(stake, o) == (stake * (o - OddsScale)) \div OddsScale
LossProfit(stake) == -stake
BetProfits(stake) ==
    {WinProfit(stake, o) : o \in BetOdds} \cup {LossProfit(stake)}

InitLedger ==
    /\ bankroll = INITIAL_BANKROLL
    /\ odds = 20
    /\ edge \in {-20, 50}
    /\ full_kelly = DEFAULT_FULL_KELLY
    /\ kelly_pct = None
    /\ stake_info = None
    /\ settlements = <<>>
    /\ bet_limits = None
    /\ display_positive_ev = <<>>
    /\ num_legs = None
    /\ adjusted_prob = None
    /\ EvUnused
    /\ ArbUnused
    /\ pc = "ledger"

\* where the caller of the bankroll manager can be: the call it made last
LedgerPcs == {"ledger", "settled", "kelly_asked", "stake_asked", "limits_asked"}

\* a pending bet is marked Win or Loss:
\* bankroll_mgr.update_bankroll(bet['stake'], profit)
UpdateBankroll ==
    /\ pc \in LedgerPcs
    /\ Len(settlements) < MaxSettlements
    /\ \E stake \in BetStakes : \E profit \in BetProfits(stake) :
           /\ bankroll' = update_bankroll(bankroll, stake, profit)
           /\ settlements' = Append(settlements, <<stake, profit>>)
    /\ pc' = "settled"
    /\ UNCHANGED <<evVars, arbVars, odds, edge, full_kelly, kelly_pct,
                   stake_info, display_positive_ev, num_legs, adjusted_prob,
                   bet_limits>>

\* kelly_pct = bankroll_mgr.kelly_criterion(odds, edge)
LedgerKelly ==
    /\ pc \in LedgerPcs
    /\ kelly_pct' = kelly_criterion(odds, edge, full_kelly)
    /\ pc' = "kelly_asked"
    /\ UNCHANGED <<evVars, arbVars, bankroll, odds, edge, full_kelly,
                   stake_info, appVars>>

\* stake_info = bankroll_mgr.calculate_stake(odds, edge)
LedgerStake ==
    /\ pc \in LedgerPcs
    /\ stake_info' = calculate_stake(bankroll, odds, edge, DEFAULT_UNIT_SIZE)
    /\ pc' = "stake_asked"
    /\ UNCHANGED <<evVars, arbVars, bankroll, odds, edge, full_kelly,
                   kelly_pct, appVars>>

\* limits = bankroll_mgr.get_bet_limits()
GetBetLimits ==
    /\ pc \in LedgerPcs
    /\ bet_limits' = get_bet_limits(bankroll)
    /\ pc' = "limits_asked"
    /\ UNCHANGED <<evVars, arbVars, stakeVars, display_positive_ev, num_legs,
                   adjusted_prob, settlements>>

NextLedger == UpdateBankroll \/ LedgerKelly \/ LedgerStake \/ GetBetLimits

SpecLedger == InitLedger /\ [][NextLedger]_vars

----------------------------------------------------------------------------
(* Properties of the bankroll *)

\* the profits of the update_bankroll calls made so far, summed
ProfitSum == SumSeq([k \in 1..Len(settlements) |-> settlements[k][2]])

\* C24: the bankroll is the initial bankroll plus the sum of the profits of
\* the update_bankroll calls made, whatever their stake arguments; and
\* kelly_criterion, calculate_stake and get_bet_limits leave it as it is.
C24_PlainAccumulator ==
    pc \in LedgerPcs => bankroll = INITIAL_BANKROLL + ProfitSum

\* two bets of different stakes were settled with the same profit, and a
\* stake or the limits were asked for afterwards
C24_Witness ==
    /\ Len(settlements) = 2
    /\ settlements[1][1] # settlements[2][1]
    /\ settlements[1][2] = settlements[2][2]
    /\ \/ /\ pc = "stake_asked"
          /\ \/ stake_info.amount * 100 = bankroll
             \/ stake_info.amount * 200 = bankroll
       \/ /\ pc = "limits_asked"
          /\ bet_limits.suggested_unit = bankroll * 10

\* C28: after any sequence of win and loss settlements, a loss taking off the
\* bet's stake even when it exceeds the bankroll, calculate_stake returns a
\* non-negative amount.
C28_StakeNeverNegative ==
    pc = "stake_asked" => stake_info.amount >= 0

----------------------------------------------------------------------------
(* app.py, Parlay Builder: the Analyze handler *)

\* min_ev = st.slider("EV Threshold", 0, 20, 5, 1) / 100: 0 and the default
MinEvs == {0, 5 * (ProbScale \div 100)}

\* num_legs = st.select_slider("Picks", options=[2, 3, 4, 5, 6], value=6)
LegOptions == {2, 3, 4, 5, 6}

\* calculate_bump_risk(implied_prob)['risk'] == 'HIGH' for a prop
\* get_bump_warning looks at: implied_prob > 0.55, 0 < implied_prob < 1 and
\* 1 / implied_prob <= 1.71
HighBumpRisk(prop) ==
    /\ prop.implied_prob > (55 * ProbScale) \div 100
    /\ prop.implied_prob > 0
    /\ prop.implied_prob < ProbScale
    /\ 100 * ProbScale <= 171 * prop.implied_prob

\* lines 301-312: the stat filter, the positive-EV filter and the bump filter
DisplayPositiveEv(ev, selected_stats, min_ev, exclude_bump_risk) ==
    LET InStats(r) == r.stat_type \in selected_stats
        stat_ev == IF selected_stats # {} THEN SelectSeq(ev, InStats) ELSE ev
        Positive(r) == r.is_positive /\ r.ev >= min_ev
        positive_ev == SelectSeq(stat_ev, Positive)
        high_risk_players == {positive_ev[k].player :
                                 k \in {i \in 1..Len(positive_ev) :
                                           HighBumpRisk(positive_ev[i])}}
        LowRisk(r) == r.player \notin high_risk_players
    IN  IF exclude_bump_risk /\ positive_ev # <<>>
        THEN SelectSeq(positive_ev, LowRisk) ELSE positive_ev

\* mutant: the last row of each player is kept
drop_duplicates_keep_last(df) ==
    LET idx == {k \in 1..Len(df) :
                   \A j \in (k + 1)..Len(df) : df[j].player # df[k].player}
        Nth(n) == CHOOSE k \in idx : Cardinality({j \in idx : j < k}) = n - 1
    IN  [n \in 1..Cardinality(idx) |-> df[Nth(n)]]

\* drop_duplicates(subset=['player'], keep='first')
drop_duplicates(df) ==
    LET idx == {k \in 1..Len(df) :
                   \A j \in 1..(k - 1) : df[j].player # df[k].player}
        Nth(n) == CHOOSE k \in idx : Cardinality({j \in idx : j < k}) = n - 1
    IN  [n \in 1..Cardinality(idx) |-> df[Nth(n)]]

\* df.head(n)
head(df, n) == SubSeq(df, 1, Min(n, Len(df)))

\* lines 316-321: the possible values of selected_picks
SelectPicks(display, legs) ==
    IF display # <<>>
    THEN {head(drop_duplicates(sorted), legs) :
             sorted \in sort_values({display[k] : k \in 1..Len(display)})}
    ELSE {<<>>}

\* lines 324-328: penalty, with the default correlation_weight 0.3
ParlayPenalty(selected_picks) ==
    IF selected_picks # <<>> /\ Len(selected_picks) >= 2
    THEN calculate_correlation_penalty(selected_picks, 3) ELSE <<1, 1>>

\* lines 324-328: warning
ParlayWarning(selected_picks) ==
    IF selected_picks # <<>> /\ Len(selected_picks) >= 2
    THEN get_correlation_warning(selected_picks) ELSE None

\* line 331: raw_prob, in 1/ProbScale
ParlayRawProb(selected_picks) ==
    IF selected_picks # <<>> THEN calculate_parlay_probability(selected_picks)
    ELSE 0

\* line 332: adjusted_prob = raw_prob * penalty, an exact fraction
AdjustedProb(raw, pen) == Reduce(raw * pen[1], ProbScale * pen[2])

\* the props on offer: two of one player, and one each of three more
ParlayProps ==
    <<[player |-> "LeBron James", line |-> 20, stat_type |-> "Points"],
      [player |-> "LeBron James", line |-> 20, stat_type |-> "Rebounds"],
      [player |-> "Anthony Davis", line |-> 20, stat_type |-> "Points"],
      [player |-> "Stephen Curry", line |-> 20, stat_type |-> "Points"],
      [player |-> "Nikola Jokic", line |-> 20, stat_type |-> "Points"]>>

\* the market quotes on offer: sure things, quotes at the default threshold,
\* an UNDER, a quote with no value, one of high bump risk, one of small value
ParlayQuotes ==
    <<[player |-> "LeBron James", market_line |-> 24, implied_prob |-> 10000],
      [player |-> "LeBron James", market_line |-> 26, implied_prob |-> 5500],
      [player |-> "Anthony Davis", market_line |-> 24, implied_prob |-> 5500],
      [player |-> "Stephen Curry", market_line |-> 24, implied_prob |-> 10000],
      [player |-> "Nikola Jokic", market_line |-> 18, implied_prob |-> 3000],
      [player |-> "Stephen Curry", market_line |-> 22, implied_prob |-> 5000],
      [player |-> "Anthony Davis", market_line |-> 26, implied_prob |-> 6000],
      [player |-> "Nikola Jokic", market_line |-> 24, implied_prob |-> 5200]>>

\* the largest number of market quotes loaded
MaxParlayQuotes == 4

\* the rows of list at the positions in S, in the order of the list
Pick(list, S) ==
    LET Nth(n) == CHOOSE k \in S : Cardinality({j \in S : j < k}) = n - 1
    IN  [n \in 1..Cardinality(S) |-> list[Nth(n)]]

InitParlay ==
    /\ prizepicks_df = ParlayProps
    /\ \E S \in SUBSET (1..Len(ParlayQuotes)) :
           /\ Cardinality(S) <= MaxParlayQuotes
           /\ market_df = Pick(ParlayQuotes, S)
    /\ ev_data = None
    /\ picks_df = <<>>
    /\ weight = 3
    /\ raw_prob = None
    /\ penalty = None
    /\ warning = None
    /\ ArbUnused
    /\ StakeUnused
    /\ AppUnused
    /\ pc = "start"

\* lines 293-332, after calculate_ev returned a non-empty frame
BuildParlay ==
    /\ pc = "ev_done"
    /\ ev_data # <<>>
    /\ \E selected_stats \in SUBSET StatTypes, min_ev \in MinEvs,
          exclude_bump_risk \in BOOLEAN, legs \in LegOptions :
           LET display == DisplayPositiveEv(ev_data, selected_stats, min_ev,
                                            exclude_bump_risk)
           IN  /\ display_positive_ev' = display
               /\ num_legs' = legs
               /\ \E selected_picks \in SelectPicks(display, legs) :
                      /\ picks_df' = selected_picks
                      /\ penalty' = ParlayPenalty(selected_picks)
                      /\ warning' = ParlayWarning(selected_picks)
                      /\ raw_prob' = ParlayRawProb(selected_picks)
                      /\ adjusted_prob' =
                             AdjustedProb(ParlayRawProb(selected_picks),
                                          ParlayPenalty(selected_picks))
    /\ pc' = "parlay_done"
    /\ UNCHANGED <<prizepicks_df, market_df, ev_data, weight, arbVars,
                   stakeVars, settlements, bet_limits>>

NextParlay == CalculateEv \/ BuildParlay

SpecParlay == InitParlay /\ [][NextParlay]_vars

ParlayDone == pc = "parlay_done"

\* the players among the candidates
CandidatePlayers ==
    {display_positive_ev[k].player : k \in 1..Len(display_positive_ev)}

\* the best ev a player has among the candidates
BestEv(p) ==
    CHOOSE e \in {display_positive_ev[k].ev : k \in 1..Len(display_positive_ev)} :
        /\ \E k \in 1..Len(display_positive_ev) :
               display_positive_ev[k].player = p /\ display_positive_ev[k].ev = e
        /\ \A k \in 1..Len(display_positive_ev) :
               display_positive_ev[k].player = p => display_positive_ev[k].ev <= e

SelectedPlayers == {picks_df[k].player : k \in 1..Len(picks_df)}

\* C23: the selected legs are candidates of pairwise distinct players, each
\* the best-ev candidate of its player, and they are the num_legs players of
\* best ev, or every candidate player when there are fewer than num_legs.
C23_DistinctBestLegs ==
    ParlayDone =>
        /\ \A k, l \in 1..Len(picks_df) :
               k # l => picks_df[k].player # picks_df[l].player
        /\ \A k \in 1..Len(picks_df) :
               /\ \E j \in 1..Len(display_positive_ev) :
                      display_positive_ev[j] = picks_df[k]
               /\ picks_df[k].ev = BestEv(picks_df[k].player)
        /\ Len(picks_df) = Min(num_legs, Cardinality(CandidatePlayers))
        /\ \A p \in CandidatePlayers \ SelectedPlayers :
               \A k \in 1..Len(picks_df) : BestEv(p) <= picks_df[k].ev

\* a player with two candidates of different ev was selected, and a player of
\* smaller ev was left out for lack of room
C23_Witness ==
    /\ ParlayDone
    /\ Len(picks_df) = num_legs
    /\ CandidatePlayers \ SelectedPlayers # {}
    /\ \E k \in 1..Len(picks_df), j \in 1..Len(display_positive_ev) :
           /\ display_positive_ev[j].player = picks_df[k].player
           /\ display_positive_ev[j].ev < picks_df[k].ev

\* C26: the adjusted probability is a probability, between 0 and 1.
C26_AdjustedProbInUnitInterval ==
    ParlayDone =>
        /\ adjusted_prob[1] >= 0
        /\ adjusted_prob[1] <= adjusted_prob[2]

\* C27: a warning comes with a penalty below 1.
C27_WarningMeansReduction ==
    (ParlayDone /\ warning # None) => penalty[1] < penalty[2]

----------------------------------------------------------------------------
(* app.py, Arbitrage tab: the scan *)

\* the columns of the frame calculate_ev returns for the loaded data
EvColumns ==
    {"player", "line", "stat_type", "market_line", "implied_prob", "ev",
     "direction", "is_positive", "edge_amount"}

\* one prop each of three players
ScanProps ==
    <<[player |-> "LeBron James", line |-> 20, stat_type |-> "Points"],
      [player |-> "Stephen Curry", line |-> 20, stat_type |-> "Points"],
      [player |-> "Kevin Durant", line |-> 20, stat_type |-> "Points"]>>

\* market quotes with value and without, on either side of the line
ScanQuotes ==
    <<[player |-> "LeBron James", market_line |-> 24, implied_prob |-> 6000],
      [player |-> "LeBron James", market_line |-> 22, implied_prob |-> 5000],
      [player |-> "LeBron James", market_line |-> 18, implied_prob |-> 10000],
      [player |-> "LeBron James", market_line |-> 26, implied_prob |-> 0],
      [player |-> "Stephen Curry", market_line |-> 26, implied_prob |-> 0],
      [player |-> "Stephen Curry", market_line |-> 24, implied_prob |-> 3000],
      [player |-> "Stephen Curry", market_line |-> 18, implied_prob |-> 3000],
      [player |-> "Stephen Curry", market_line |-> 22, implied_prob |-> 5500],
      [player |-> "Kevin Durant", market_line |-> 24, implied_prob |-> 4500],
      [player |-> "Kevin Durant", market_line |-> 18, implied_prob |-> 4500]>>

\* the largest number of market quotes loaded for the scan
MaxScanQuotes == 2

InitScan ==
    /\ prizepicks_df = ScanProps
    /\ \E S \in SUBSET (1..Len(ScanQuotes)) :
           /\ Cardinality(S) <= MaxScanQuotes
           /\ market_df = Pick(ScanQuotes, S)
    /\ ev_data = None
    /\ picks_df = <<>>
    /\ weight = 3
    /\ raw_prob = None
    /\ penalty = None
    /\ warning = None
    /\ ArbUnused
    /\ StakeUnused
    /\ AppUnused
    /\ pc = "start"

\* lines 842-876: the records of the whole frame go to calculate_arbitrage,
\* and, unless that raised, the frame goes to find_correlation_arb
ScanArbitrage ==
    /\ pc = "ev_done"
    /\ ev_data # <<>>
    /\ props' = ev_data
    /\ arb_opportunities' = calculate_arbitrage(ev_data)
    /\ ev_columns' = EvColumns
    /\ corr_arb' = IF calculate_arbitrage(ev_data) = ZeroDivisionError
                   THEN corr_arb
                   ELSE find_correlation_arb(ev_data, EvColumns)
    /\ pc' = "scan_done"
    /\ UNCHANGED <<evVars, stakeVars, appVars>>

NextScan == CalculateEv \/ ScanArbitrage

SpecScan == InitScan /\ [][NextScan]_vars

\* C25: every quote the application passes to calculate_arbitrage has
\* is_positive true.
C25_OnlyPositiveQuotesScanned ==
    pc = "scan_done" => \A k \in 1..Len(props) : props[k].is_positive


=============================================================================
